---------------------------- MODULE Spec2Model ----------------------------
(***************************************************************************)
(* A model of phip/gampois.py: the Gamma-Poisson background model of       *)
(* phip-stat.  The five functions of the file are modelled as one          *)
(* sequential state machine whose program counter walks through            *)
(* gamma_poisson_model; a direct call of one of the other four functions   *)
(* is the same machine entered at that function's stage with arbitrary     *)
(* arguments and left when the function returns.                           *)
(*                                                                         *)
(* Numbers.  Count-table cells are integers.  Quantities the code derives  *)
(* by a quotient (row means, the percentile score, the posterior rates)    *)
(* are kept exact, as an integer over a stated denominator.  The values of *)
(* the log-domain series of poisson_logsf are IEEE doubles in the code;    *)
(* here they are records [k, v]: k = "fin" with v the value in units of    *)
(* 1/Scale, or one of the non-finite values "nan", "ninf", "pinf" (v = 0). *)
(***************************************************************************)
EXTENDS Integers, Sequences, FiniteSets, TLC

VARIABLES
  entry,            \* the function that was called
  pc,               \* the statement about to run
  counts,           \* the count table (rows of cells)
  trim_percentile,  \* gamma_poisson_model's argument, in tenths of a percent
  upper_bound,      \* the trim threshold, in thousandths
  trimmed_means,    \* per-row means of the unmasked cells, in 1 / MeanDen
  x,                \* fit_gamma's sample, in 1 / MeanDen
  m, s, sl,         \* fit_gamma's statistics
  success,          \* param.success of the minimizer's result
  alpha, beta,      \* the prior's parameters
  rates,            \* one posterior rate <<p, q>> = p / q per row
  i,                \* mlxp_gamma_poisson's row index (1-based)
  mlxp,             \* mlxp_gamma_poisson's table, row by row
  arg,              \* poisson_logsf's argument counts
  rate,             \* poisson_logsf's argument rate <<p, q>>
  pcounts,          \* poisson_logsf's local array counts
  accum, new,       \* poisson_logsf's running log-sums
  iter,             \* iterations of poisson_logsf's loop so far
  ret               \* the value the called function returned

vars ==
  <<entry, pc, counts, trim_percentile, upper_bound, trimmed_means, x, m, s,
    sl, success, alpha, beta, rates, i, mlxp, arg, rate, pcounts, accum, new,
    iter, ret>>

(***************************************************************************)
(* Fixed-point arithmetic on finite values                                 *)
(***************************************************************************)
Scale == 10 ^ 7

Half == 10 ^ 4

\* a * b / Scale, rounded, for 0 <= a, b <= 2 * Scale, without leaving 32 bits
Mul(a, b) ==
  LET ah == a \div Half
      al == a % Half
      bh == b \div Half
      bl == b % Half
  IN  ah * bh * 10
      + ((ah * bl + al * bh) * 10 + (al * bl) \div 1000 + Half \div 2) \div Half

\* the first n decimal digits of r / d after the point, for 0 <= r < d
RECURSIVE Digits(_, _, _)
Digits(r, d, n) ==
  IF n = 0 THEN 0
  ELSE ((r * 10) \div d) * 10 ^ (n - 1) + Digits((r * 10) % d, d, n - 1)

\* a * 10^n / d for a >= 0, d > 0
DivFix(a, d, n) == (a \div d) * 10 ^ n + Digits(a % d, d, n)

\* round(ln(n) * Scale) for n = 1 .. 60
LnTab ==
  << 0, 6931472, 10986123, 13862944, 16094379, 17917595,
     19459101, 20794415, 21972246, 23025851, 23978953, 24849066,
     25649494, 26390573, 27080502, 27725887, 28332133, 28903718,
     29444390, 29957323, 30445224, 30910425, 31354942, 31780538,
     32188758, 32580965, 32958369, 33322045, 33672958, 34011974,
     34339872, 34657359, 34965076, 35263605, 35553481, 35835189,
     36109179, 36375862, 36635616, 36888795, 37135721, 37376696,
     37612001, 37841896, 38066625, 38286414, 38501476, 38712010,
     38918203, 39120230, 39318256, 39512437, 39702919, 39889840,
     40073332, 40253517, 40430513, 40604430, 40775374, 40943446 >>

\* round(lgamma(n) * Scale) for n = 1 .. 60
GammaLnTab ==
  << 0, 0, 6931472, 17917595, 31780538, 47874917,
     65792512, 85251614, 106046029, 128018275, 151044126, 175023078,
     199872145, 225521639, 251912212, 278992714, 306718601, 335050735,
     363954452, 393398842, 423356165, 453801389, 484711814, 516066756,
     547847294, 580036052, 612617018, 645575386, 678897431, 712570390,
     746582363, 780922236, 815579595, 850544670, 885808275, 921361756,
     957196945, 993306125, 1029681986, 1066317603, 1103206397, 1140342118,
     1177718814, 1215330815, 1253172711, 1291239336, 1329525750, 1368027226,
     1406739236, 1445657439, 1484777670, 1524095926, 1563608363, 1603311282,
     1643201123, 1683274454, 1723527971, 1763958484, 1804562914, 1845338289 >>

Ln2 == LnTab[2]

Ln10 == LnTab[10]

\* exp(-r) for 0 <= r < Ln2: the Taylor series in Horner form
RECURSIVE ExpHorner(_, _, _)
ExpHorner(r, j, h) ==
  IF j = 0 THEN h ELSE ExpHorner(r, j - 1, Scale - Mul(r, h) \div j)

\* exp(-d) for d >= 0: exp(-(d % Ln2)) halved d \div Ln2 times
ExpNeg(d) ==
  IF d \div Ln2 > 30 THEN 0
  ELSE ExpHorner(d % Ln2, 12, Scale) \div (2 ^ (d \div Ln2))

\* log(1 + y) for 0 <= y <= Scale: 2 atanh(y / (2 + y)) as a series
RECURSIVE AtanhHorner(_, _, _)
AtanhHorner(z2, j, g) ==
  IF j = 0 THEN g
  ELSE AtanhHorner(z2, j - 1, (2 * Scale + 2 * j - 1) \div (4 * j - 2) + Mul(z2, g))

Log1p(y) ==
  LET z == DivFix(y, 2 * Scale + y, 7)
  IN  Mul(2 * z, AtanhHorner(Mul(z, z), 8, Scale \div 17))

(***************************************************************************)
(* Double-precision values with their non-finite cases                     *)
(***************************************************************************)
Fin(v) == [k |-> "fin", v |-> v]

NaN == [k |-> "nan", v |-> 0]

NegInf == [k |-> "ninf", v |-> 0]

PosInf == [k |-> "pinf", v |-> 0]

IsFin(u) == u.k = "fin"

IsInf(u) == u.k \in {"ninf", "pinf"}

FNeg(u) ==
  CASE u.k = "fin" -> Fin(-u.v)
    [] u.k = "ninf" -> PosInf
    [] u.k = "pinf" -> NegInf
    [] OTHER -> NaN

FAdd(u, w) ==
  CASE u.k = "nan" \/ w.k = "nan" -> NaN
    [] u.k = "fin" /\ w.k = "fin" -> Fin(u.v + w.v)
    [] u.k = "fin" -> w
    [] w.k = "fin" -> u
    [] u.k = w.k -> u
    [] OTHER -> NaN

FSub(u, w) == FAdd(u, FNeg(w))

\* u < w: false whenever an operand is NaN
FLt(u, w) ==
  CASE u.k = "nan" \/ w.k = "nan" -> FALSE
    [] u.k = "fin" /\ w.k = "fin" -> u.v < w.v
    [] u.k = "ninf" -> w.k # "ninf"
    [] u.k = "pinf" -> FALSE
    [] OTHER -> w.k = "pinf"

\* n * u, for an integer n >= 1
FScale(n, u) == IF IsFin(u) THEN Fin(n * u.v) ELSE u

\* == on doubles: NaN equals nothing
FEq(u, w) == u.k # "nan" /\ u = w

(***************************************************************************)
(* Bounds and the argument sets calls are drawn from                       *)
(***************************************************************************)
\* largest value of a count-table cell
MaxCount == 2

\* cap on the iterations of the poisson_logsf loop that the model follows
MaxIter == 45

CountValues == 0 .. MaxCount

\* count vectors (one row of the table, or the argument of poisson_logsf)
Vectors == {<<a, b>> : a \in CountValues, b \in CountValues}

\* count tables: two rows by two columns
Tables == {<<r1, r2>> : r1 \in Vectors, r2 \in Vectors}

\* thousandths: the unit of trim_percentile (in percent / 10) and upper_bound
PerMille == 10 ^ 3

\* trim_percentile=99.9, the default of gamma_poisson_model, in tenths
TrimPercentileDefault == 999

PerSet == {TrimPercentileDefault, 500, 1000, 1001}

\* the lcm of the possible numbers of unmasked cells of a row: row means are
\* integers in units of 1 / MeanDen
RECURSIVE Factorial(_)
Factorial(n) == IF n <= 1 THEN 1 ELSE n * Factorial(n - 1)

MeanDen == Factorial(Len(CHOOSE v \in Vectors : TRUE))

\* rates <<p, q>> = p / q (q > 0) a direct call of poisson_logsf is given
RateSet == {<<-1, 1>>, <<0, 1>>, <<1, 4>>, <<1, 1>>, <<3, 1>>, <<16, 1>>}

\* rate vectors a direct call of mlxp_gamma_poisson is given
MlxpRates == {<<0, 1>>, <<1, 2>>, <<2, 1>>}

RateVectors == {<<r1, r2>> : r1 \in MlxpRates, r2 \in MlxpRates}

\* samples a direct call of fit_gamma is given, in units of 1 / MeanDen
SampleValues == {0, 1, MeanDen, 2 * MeanDen}

Samples ==
  {<<>>} \cup {<<a>> : a \in SampleValues}
         \cup {<<a, b>> : a \in SampleValues, b \in SampleValues}

\* arguments of a direct call of gamma_poisson_posterior_rates
AlphaArgs == {0, 1, 2}

BetaArgs == {1, 2}

UpperBoundArgs == {-PerMille, 0, PerMille \div 2, PerMille, 2 * PerMille}

(***************************************************************************)
(* Sequences                                                               *)
(***************************************************************************)
RECURSIVE SeqSum(_)
SeqSum(q) == IF q = <<>> THEN 0 ELSE Head(q) + SeqSum(Tail(q))

RECURSIVE Flatten(_)
Flatten(tbl) == IF tbl = <<>> THEN <<>> ELSE Head(tbl) \o Flatten(Tail(tbl))

RECURSIVE Insert(_, _)
Insert(v, q) ==
  IF q = <<>> THEN <<v>>
  ELSE IF v <= Head(q) THEN <<v>> \o q
  ELSE <<Head(q)>> \o Insert(v, Tail(q))

RECURSIVE Sort(_)
Sort(q) == IF q = <<>> THEN <<>> ELSE Insert(Head(q), Sort(Tail(q)))

(***************************************************************************)
(* poisson_logsf                                                           *)
(***************************************************************************)
\* np.log(rate): -inf at 0 and NaN below it (a warning, not an exception)
Log(r) ==
  IF r[1] > 0 THEN Fin(LnTab[r[1]] - LnTab[r[2]])
  ELSE IF r[1] = 0 THEN NegInf
  ELSE NaN

\* rate as a double
RateVal(r) ==
  IF r[1] >= 0 THEN Fin(DivFix(r[1], r[2], 7))
  ELSE Fin(-DivFix(-r[1], r[2], 7))

\* sp.special.gammaln(n) for an integer n >= 1
GammaLn(n) == Fin(GammaLnTab[n])

\* counts * np.log(rate) - rate - sp.special.gammaln(counts + 1), one element
Term(k, r) ==
  FSub(FSub(FScale(k, Log(r)), RateVal(r)), GammaLn(k + 1))

Terms(kvec, r) == [e \in DOMAIN kvec |-> Term(kvec[e], r)]

\* log1p(exp(-|t|)) for a difference t that is not NaN
SoftPlus(t) ==
  IF IsFin(t) THEN Log1p(ExpNeg(IF t.v >= 0 THEN t.v ELSE -t.v)) ELSE 0

\* np.logaddexp
LogAddExp(u, w) ==
  IF FEq(u, w) THEN FAdd(u, Fin(Ln2))
  ELSE LET tmp == FSub(u, w)
       IN  IF FLt(Fin(0), tmp) THEN FAdd(u, Fin(SoftPlus(tmp)))
           ELSE IF tmp.k # "nan" THEN FAdd(w, Fin(SoftPlus(tmp)))
           ELSE NaN

\* the 0.0001 of the convergence test
Tol == Scale \div 10 ^ 4

\* a mutant of Converged: the increase compared with 0
ConvergedBelowZero(nw, acc) ==
  \A e \in DOMAIN nw : FLt(FSub(nw[e], acc[e]), Fin(0))

\* a mutant of Converged: np.any
ConvergedAny(nw, acc) ==
  \E e \in DOMAIN nw : FLt(FSub(nw[e], acc[e]), Fin(Tol))

\* np.all(new - accum < 0.0001)
Converged(nw, acc) ==
  \A e \in DOMAIN nw : FLt(FSub(nw[e], acc[e]), Fin(Tol))

\* one pass of the loop body: counts += 1; next_terms; new
NextCounts(kvec) == [e \in DOMAIN kvec |-> kvec[e] + 1]

NewSums(acc, kvec, r) ==
  [e \in DOMAIN acc |-> LogAddExp(acc[e], Term(kvec[e], r))]

(***************************************************************************)
(* fit_gamma                                                               *)
(***************************************************************************)
\* x[x > 0]
Positive(q) == SelectSeq(q, LAMBDA v : v > 0)

\* np.log of a sample value v / MeanDen, v > 0
LogSample(v) == LnTab[v] - LnTab[MeanDen]

RECURSIVE SumLog(_)
SumLog(q) == IF q = <<>> THEN 0 ELSE LogSample(Head(q)) + SumLog(Tail(q))

\* m = len(x)
FitCount(q) == Len(q)

\* the start (2, 1) of the minimizer
AlphaInit == 2

BetaInit == 1

\* What sp.optimize.minimize can hand back as <<alpha, beta, success>>: a
\* point inside the bounds (both coordinates > 0), converged or not.  With
\* an empty sample the objective is constant and the start is returned.
MinimizeResults(mm) ==
  IF mm = 0 THEN {<<AlphaInit, BetaInit, TRUE>>}
  ELSE {<<a, b, ok>> : a \in {1, 2}, b \in {1, 2}, ok \in BOOLEAN}

(***************************************************************************)
(* masking, the percentile, gamma_poisson_posterior_rates                  *)
(***************************************************************************)
\* a mutant of MaskedGreater: np.ma.masked_greater_equal
MaskedGreaterEqual(row, ub) == [c \in DOMAIN row |-> row[c] * PerMille >= ub]

\* the mask of np.ma.masked_greater(row, upper_bound)
MaskedGreater(row, ub) == [c \in DOMAIN row |-> row[c] * PerMille > ub]

\* np.ma.sum(...).data of one row: the masked cells filled with 0
MaskedSum(row, mask) ==
  SeqSum([c \in DOMAIN row |-> IF mask[c] THEN 0 ELSE row[c]])

\* (~np.ma.getmaskarray(masked)).sum() of one row
UnmaskedSize(mask) == SeqSum([c \in DOMAIN mask |-> IF mask[c] THEN 0 ELSE 1])

\* np.ma.mean(...).data of one row, in 1 / MeanDen: 0 for a fully masked row
MaskedMean(row, ub) ==
  LET mask == MaskedGreater(row, ub)
  IN  IF UnmaskedSize(mask) = 0 THEN 0
      ELSE (MaskedSum(row, mask) * MeanDen) \div UnmaskedSize(mask)

\* sp.stats.scoreatpercentile(a, per) of the flattened, sorted values, in
\* thousandths: linear interpolation at index per / 100 * (n - 1)
ScoreAtPercentile(vals, per) ==
  LET sorted == Sort(vals)
      idx == per * (Len(vals) - 1)
      j == idx \div PerMille
      frac == idx % PerMille
  IN  IF frac = 0 THEN sorted[j + 1] * PerMille
      ELSE sorted[j + 1] * (PerMille - frac) + sorted[j + 2] * frac

\* a mutant of PosteriorRate: the sum subtracted
PosteriorRateMinus(row, a, b, ub) ==
  LET mask == MaskedGreater(row, ub)
  IN  <<a - MaskedSum(row, mask), b + UnmaskedSize(mask)>>

\* (alpha + trimmed_sums) / (beta + trimmed_sizes), one row
PosteriorRate(row, a, b, ub) ==
  LET mask == MaskedGreater(row, ub)
  IN  <<a + MaskedSum(row, mask), b + UnmaskedSize(mask)>>

(***************************************************************************)
(* mlxp_gamma_poisson                                                      *)
(***************************************************************************)
\* -log10(np.finfo(np.float64).tiny) = 307.652656 in 1 / 10^6
MlxpCeiling == 307652656

\* -v / np.log(10), in 1 / 10^6
MlxpCell(v) ==
  CASE v.k = "fin" ->
         IF v.v <= 0 THEN Fin(DivFix(-v.v, Ln10, 6))
         ELSE Fin(-DivFix(v.v, Ln10, 6))
    [] OTHER -> FNeg(v)

\* a mutant of Replace: the test inverted
ReplaceFinite(v) == IF v # PosInf THEN Fin(MlxpCeiling) ELSE v

\* mlxp.replace(np.inf, -np.log10(tiny)), one cell
Replace(v) == IF v = PosInf THEN Fin(MlxpCeiling) ELSE v

\* the row index of the loop has a row left
RowLeft == i <= Len(counts)

(***************************************************************************)
(* The state machine                                                       *)
(***************************************************************************)
Init ==
  /\ m = 0 /\ s = 0 /\ sl = 0 /\ success = FALSE
  /\ i = 0 /\ mlxp = <<>>
  /\ pcounts = <<>> /\ accum = <<>> /\ new = <<>> /\ iter = 0
  /\ ret = <<>>
  /\ trimmed_means = <<>>
  /\ \/ /\ entry = "gamma_poisson_model" /\ pc = "upper_bound"
        /\ counts \in Tables /\ trim_percentile \in PerSet
        /\ upper_bound = 0 /\ x = <<>> /\ alpha = 0 /\ beta = 0
        /\ rates = <<>> /\ arg = <<>> /\ rate = <<0, 1>>
     \/ /\ entry = "fit_gamma" /\ pc = "fit_gamma"
        /\ x \in Samples
        /\ counts = <<>> /\ trim_percentile = 0 /\ upper_bound = 0
        /\ alpha = 0 /\ beta = 0
        /\ rates = <<>> /\ arg = <<>> /\ rate = <<0, 1>>
     \/ /\ entry = "gamma_poisson_posterior_rates" /\ pc = "rates"
        /\ counts \in Tables /\ alpha \in AlphaArgs /\ beta \in BetaArgs
        /\ upper_bound \in UpperBoundArgs
        /\ trim_percentile = 0 /\ x = <<>>
        /\ rates = <<>> /\ arg = <<>> /\ rate = <<0, 1>>
     \/ /\ entry = "mlxp_gamma_poisson" /\ pc = "mlxp"
        /\ counts \in Tables /\ rates \in RateVectors
        /\ trim_percentile = 0 /\ upper_bound = 0 /\ x = <<>>
        /\ alpha = 0 /\ beta = 0 /\ arg = <<>> /\ rate = <<0, 1>>
     \/ /\ entry = "poisson_logsf" /\ pc = "logsf"
        /\ arg \in Vectors /\ rate \in RateSet
        /\ counts = <<>> /\ trim_percentile = 0 /\ upper_bound = 0
        /\ x = <<>> /\ alpha = 0 /\ beta = 0 /\ rates = <<>>

\* where a stage hands over: back to the caller when it was called directly
After(fn, nextpc) == IF entry = fn THEN "done" ELSE nextpc

\* gamma_poisson_model, line 104: the percentile of all values of the table;
\* scoreatpercentile raises ValueError for a percentile outside [0, 100]
UpperBound ==
  /\ pc = "upper_bound"
  /\ IF 0 <= trim_percentile /\ trim_percentile <= 100 * 10
     THEN /\ upper_bound' = ScoreAtPercentile(Flatten(counts), trim_percentile)
          /\ pc' = "trimmed_means"
     ELSE /\ upper_bound' = upper_bound
          /\ pc' = "raised"
  /\ UNCHANGED <<entry, counts, trim_percentile, trimmed_means, x, m, s, sl,
                 success, alpha, beta, rates, i, mlxp, arg, rate, pcounts,
                 accum, new, iter, ret>>

\* gamma_poisson_model, lines 105-108: the trimmed row means, handed to
\* fit_gamma as its sample
TrimmedMeans ==
  /\ pc = "trimmed_means"
  /\ trimmed_means' = [r \in DOMAIN counts |-> MaskedMean(counts[r], upper_bound)]
  /\ x' = trimmed_means'
  /\ pc' = "fit_gamma"
  /\ UNCHANGED <<entry, counts, trim_percentile, upper_bound, m, s, sl,
                 success, alpha, beta, rates, i, mlxp, arg, rate, pcounts,
                 accum, new, iter, ret>>

\* fit_gamma, lines 40-58: the statistics, the minimizer, return param.x
FitGamma ==
  /\ pc = "fit_gamma"
  /\ m' = FitCount(x)
  /\ s' = SeqSum(Positive(x))
  /\ sl' = SumLog(Positive(x))
  /\ \E res \in MinimizeResults(m') :
       /\ alpha' = res[1]
       /\ beta' = res[2]
       /\ success' = res[3]
  /\ pc' = After("fit_gamma", "rates")
  /\ ret' = IF entry = "fit_gamma" THEN <<alpha', beta'>> ELSE ret
  /\ UNCHANGED <<entry, counts, trim_percentile, upper_bound, trimmed_means,
                 x, rates, i, mlxp, arg, rate, pcounts, accum, new, iter>>

\* gamma_poisson_posterior_rates, lines 78-81
PosteriorRates ==
  /\ pc = "rates"
  /\ rates' = [r \in DOMAIN counts |->
                 PosteriorRate(counts[r], alpha, beta, upper_bound)]
  /\ pc' = After("gamma_poisson_posterior_rates", "mlxp")
  /\ ret' = IF entry = "gamma_poisson_posterior_rates" THEN rates' ELSE ret
  /\ UNCHANGED <<entry, counts, trim_percentile, upper_bound, trimmed_means,
                 x, m, s, sl, success, alpha, beta, i, mlxp, arg, rate,
                 pcounts, accum, new, iter>>

\* mlxp_gamma_poisson, lines 90-91: mlxp = [], the loop starts at row 0
MlxpBegin ==
  /\ pc = "mlxp"
  /\ mlxp' = <<>>
  /\ i' = 1
  /\ pc' = "mlxp_row"
  /\ UNCHANGED <<entry, counts, trim_percentile, upper_bound, trimmed_means,
                 x, m, s, sl, success, alpha, beta, rates, arg, rate,
                 pcounts, accum, new, iter, ret>>

\* a mutant of MlxpCall: every row gets the first rate
MlxpCallFirstRate ==
  /\ pc = "mlxp_row"
  /\ RowLeft
  /\ arg' = counts[i]
  /\ rate' = rates[1]
  /\ pc' = "logsf"
  /\ UNCHANGED <<entry, counts, trim_percentile, upper_bound, trimmed_means,
                 x, m, s, sl, success, alpha, beta, rates, i, mlxp, pcounts,
                 accum, new, iter, ret>>

\* mlxp_gamma_poisson, line 92: call poisson_logsf(counts.iloc[i].values, rates[i])
MlxpCall ==
  /\ pc = "mlxp_row"
  /\ RowLeft
  /\ arg' = counts[i]
  /\ rate' = rates[i]
  /\ pc' = "logsf"
  /\ UNCHANGED <<entry, counts, trim_percentile, upper_bound, trimmed_means,
                 x, m, s, sl, success, alpha, beta, rates, i, mlxp, pcounts,
                 accum, new, iter, ret>>

\* poisson_logsf, lines 22-23
LogsfBegin ==
  /\ pc = "logsf"
  /\ pcounts' = NextCounts(arg)
  /\ accum' = Terms(pcounts', rate)
  /\ new' = <<>>
  /\ iter' = 0
  /\ pc' = "logsf_loop"
  /\ UNCHANGED <<entry, counts, trim_percentile, upper_bound, trimmed_means,
                 x, m, s, sl, success, alpha, beta, rates, i, mlxp, arg,
                 rate, ret>>

\* poisson_logsf, lines 25-30: one pass of the while loop
LogsfLoop ==
  /\ pc = "logsf_loop"
  /\ iter < MaxIter
  /\ pcounts' = NextCounts(pcounts)
  /\ new' = NewSums(accum, pcounts', rate)
  /\ iter' = iter + 1
  /\ IF Converged(new', accum)
     THEN /\ pc' = "logsf_return"
          /\ accum' = accum
     ELSE /\ pc' = "logsf_loop"
          /\ accum' = new'
  /\ UNCHANGED <<entry, counts, trim_percentile, upper_bound, trimmed_means,
                 x, m, s, sl, success, alpha, beta, rates, i, mlxp, arg,
                 rate, ret>>

\* poisson_logsf, line 31: return new; in mlxp_gamma_poisson (line 92) the
\* row -new / log(10) is appended and the loop moves to the next row
LogsfReturn ==
  /\ pc = "logsf_return"
  /\ IF entry = "poisson_logsf"
     THEN /\ ret' = new
          /\ pc' = "done"
          /\ UNCHANGED <<mlxp, i>>
     ELSE /\ mlxp' = Append(mlxp, [c \in DOMAIN new |-> MlxpCell(new[c])])
          /\ i' = i + 1
          /\ pc' = "mlxp_row"
          /\ ret' = ret
  /\ UNCHANGED <<entry, counts, trim_percentile, upper_bound, trimmed_means,
                 x, m, s, sl, success, alpha, beta, rates, arg, rate,
                 pcounts, accum, new, iter>>

\* mlxp_gamma_poisson, lines 93-96: the table, +inf replaced, returned
MlxpReplace ==
  /\ pc = "mlxp_row"
  /\ ~RowLeft
  /\ mlxp' = [r \in DOMAIN mlxp |-> [c \in DOMAIN mlxp[r] |-> Replace(mlxp[r][c])]]
  /\ pc' = After("mlxp_gamma_poisson", "model_return")
  /\ ret' = IF entry = "mlxp_gamma_poisson" THEN mlxp' ELSE ret
  /\ UNCHANGED <<entry, counts, trim_percentile, upper_bound, trimmed_means,
                 x, m, s, sl, success, alpha, beta, rates, i, arg, rate,
                 pcounts, accum, new, iter>>

\* gamma_poisson_model, line 111
ModelReturn ==
  /\ pc = "model_return"
  /\ ret' = <<alpha, beta, rates, mlxp>>
  /\ pc' = "done"
  /\ UNCHANGED <<entry, counts, trim_percentile, upper_bound, trimmed_means,
                 x, m, s, sl, success, alpha, beta, rates, i, mlxp, arg,
                 rate, pcounts, accum, new, iter>>

Next ==
  \/ UpperBound
  \/ TrimmedMeans
  \/ FitGamma
  \/ PosteriorRates
  \/ MlxpBegin
  \/ MlxpCall
  \/ LogsfBegin
  \/ LogsfLoop
  \/ LogsfReturn
  \/ MlxpReplace
  \/ ModelReturn

Spec == Init /\ [][Next]_vars

(***************************************************************************)
(* Properties                                                              *)
(***************************************************************************)
\* fit_gamma has returned (directly called, or inside gamma_poisson_model)
FitReturned ==
  \/ entry = "fit_gamma" /\ pc = "done"
  \/ /\ entry = "gamma_poisson_model"
     /\ pc \in {"rates", "mlxp", "mlxp_row", "logsf", "logsf_loop",
                "logsf_return", "model_return", "done"}

\* gamma_poisson_posterior_rates has returned
RatesReturned ==
  \/ entry = "gamma_poisson_posterior_rates" /\ pc = "done"
  \/ /\ entry = "gamma_poisson_model"
     /\ pc \in {"mlxp", "mlxp_row", "logsf", "logsf_loop", "logsf_return",
                "model_return", "done"}

\* poisson_logsf is running
InLogsf == pc \in {"logsf", "logsf_loop", "logsf_return"}

\* the indices of the strictly positive entries of a sample
PositiveIndices(q) == {j \in DOMAIN q : q[j] > 0}

\* the columns of a row whose cell is not above the bound
Kept(row, ub) == {c \in DOMAIN row : ~(row[c] * PerMille > ub)}

RECURSIVE SumOver(_, _)
SumOver(f, S) ==
  IF S = {} THEN 0
  ELSE LET c == CHOOSE c \in S : TRUE IN f[c] + SumOver(f, S \ {c})

\* C1: once fit_gamma has computed its statistics, m is the number of
\* strictly positive entries of the sample x, and s and sl are the sum and
\* the sum of logarithms over exactly those entries.
C1_PositiveSubsetStatistics ==
  FitReturned =>
    /\ m = Cardinality(PositiveIndices(x))
    /\ s = SumOver(x, PositiveIndices(x))
    /\ sl = SumOver([j \in DOMAIN x |-> IF x[j] > 0 THEN LogSample(x[j]) ELSE 0],
                    PositiveIndices(x))

\* C2: every returned posterior rate is exactly (alpha + S_r) / (beta + N_r)
\* with S_r the sum and N_r the number of the cells of row r that are not
\* strictly greater than upper_bound; a row with no such cell gets exactly
\* alpha / beta.
C2_PosteriorRateFormula ==
  RatesReturned =>
    \A r \in DOMAIN counts :
      LET kept == Kept(counts[r], upper_bound)
      IN  /\ rates[r] = <<alpha + SumOver(counts[r], kept),
                          beta + Cardinality(kept)>>
          /\ kept = {} => rates[r] = <<alpha, beta>>

\* C2's case: rates were returned for a table with one row entirely above
\* the bound and a cell of another row equal to the bound
C2_Witness ==
  /\ RatesReturned
  /\ \E r \in DOMAIN counts : Kept(counts[r], upper_bound) = {}
  /\ \E r \in DOMAIN counts : \E c \in DOMAIN counts[r] :
       counts[r][c] * PerMille = upper_bound /\ counts[r][c] > 0

\* all rates handed to mlxp_gamma_poisson are positive
RatesPositive == \A r \in DOMAIN rates : rates[r][1] > 0 /\ rates[r][2] > 0

\* C3: the step of mlxp_gamma_poisson that finishes the table leaves no
\* infinite value in it: a cell that was +infinity holds the ceiling
\* -log10(tiny), every other cell is left as computed.
C3_NoInfinity ==
  [][(pc = "mlxp_row" /\ pc' \in {"done", "model_return"} /\ RatesPositive) =>
       \A r \in DOMAIN mlxp : \A c \in DOMAIN mlxp[r] :
         /\ ~IsInf(mlxp'[r][c])
         /\ mlxp[r][c] = PosInf => mlxp'[r][c] = Fin(MlxpCeiling)
         /\ mlxp[r][c] # PosInf => mlxp'[r][c] = mlxp[r][c]]_vars

\* C3's case: mlxp_gamma_poisson returned a full table for positive rates
C3_Witness ==
  /\ entry = "mlxp_gamma_poisson" /\ pc = "done"
  /\ RatesPositive
  /\ Len(ret) = Len(counts)
  /\ \E r \in DOMAIN ret : \E c \in DOMAIN ret[r] : ret[r][c].v > 10 ^ 6

\* C4: for a rate > 0, the values poisson_logsf returns for the elements of
\* one input vector do not increase with the count.
C4_MonotoneInCount ==
  (pc = "logsf_return" /\ rate[1] > 0) =>
    \A e1 \in DOMAIN arg : \A e2 \in DOMAIN arg :
      arg[e1] <= arg[e2] => ~FLt(new[e1], new[e2])

\* a bound on the passes of the loop for a rate p / q: 2 * ceil(rate) + 10
IterBound(r) == 2 * ((r[1] + r[2] - 1) \div r[2]) + 10

\* every count of the argument lies in [0, 10 * rate]
InRange == \A e \in DOMAIN arg : 0 <= arg[e] /\ arg[e] * rate[2] <= 10 * rate[1]

\* C5: for a rate > 0 and counts in [0, 10 * rate] the loop of poisson_logsf
\* breaks within IterBound(rate) passes, and a finite value is returned for
\* every element.
C5_BoundedIterations ==
  (InLogsf /\ rate[1] > 0 /\ InRange) =>
    /\ pc = "logsf_loop" => iter < IterBound(rate)
    /\ pc = "logsf_return" =>
         /\ iter <= IterBound(rate)
         /\ DOMAIN new = DOMAIN arg
         /\ \A e \in DOMAIN new : IsFin(new[e])

\* C5's case: a call with a large rate returned after many passes
C5_Witness ==
  /\ pc = "logsf_return" /\ rate[1] > 0 /\ InRange
  /\ iter > 30

\* C6: a call of poisson_logsf with a rate <= 0 ends in an error as soon as
\* its body runs: it neither keeps running nor returns a value.
C6_NonPositiveRateRaises ==
  (entry = "poisson_logsf" /\ rate[1] <= 0 /\ pc # "logsf") => pc = "raised"

\* C7: when the sample has no strictly positive entry, or the minimizer
\* reports no convergence, fit_gamma ends in an error and returns no pair.
C7_FitFailsExplicitly ==
  (entry \in {"fit_gamma", "gamma_poisson_model"}
     /\ pc \notin {"upper_bound", "trimmed_means", "fit_gamma"}
     /\ (PositiveIndices(x) = {} \/ ~success))
    => pc = "raised"

\* C8: gamma_poisson_model runs upper bound -> trimmed row means -> prior fit
\* -> posterior rates -> significance table in that order, each stage on
\* earlier results only: the one upper bound is the percentile of all table
\* values and masks both the row means and the posterior-rate sums, the
\* prior is fitted on the trimmed row means, row i of the table comes from
\* the raw counts of row i and rate i, and (alpha, beta, rates, table) is
\* returned.
C8_StagesInOrder ==
  entry = "gamma_poisson_model" =>
    /\ pc \in {"upper_bound", "trimmed_means"} =>
         x = <<>> /\ alpha = 0 /\ beta = 0 /\ rates = <<>> /\ mlxp = <<>>
    /\ pc \notin {"upper_bound", "raised"} =>
         upper_bound = ScoreAtPercentile(Flatten(counts), trim_percentile)
    /\ pc = "fit_gamma" => alpha = 0 /\ beta = 0 /\ rates = <<>> /\ mlxp = <<>>
    /\ pc \notin {"upper_bound", "trimmed_means", "raised"} =>
         /\ x = trimmed_means
         /\ \A r \in DOMAIN counts :
              LET kept == Kept(counts[r], upper_bound)
              IN  /\ trimmed_means[r] * Cardinality(kept)
                       = SumOver(counts[r], kept) * MeanDen
                  /\ kept = {} => trimmed_means[r] = 0
    /\ pc = "rates" => alpha > 0 /\ beta > 0 /\ rates = <<>> /\ mlxp = <<>>
    /\ RatesReturned =>
         \A r \in DOMAIN counts :
           LET kept == Kept(counts[r], upper_bound)
           IN  rates[r] = <<alpha + SumOver(counts[r], kept),
                            beta + Cardinality(kept)>>
    /\ pc = "mlxp" => mlxp = <<>>
    /\ InLogsf => arg = counts[i] /\ rate = rates[i] /\ Len(mlxp) = i - 1
    /\ pc = "mlxp_row" =>
         /\ Len(mlxp) = i - 1
         /\ i > 1 => /\ arg = counts[i - 1] /\ rate = rates[i - 1]
                     /\ mlxp[i - 1] = [c \in DOMAIN new |-> MlxpCell(new[c])]
    /\ pc \in {"model_return", "done"} =>
         /\ DOMAIN mlxp = DOMAIN counts
         /\ \A r \in DOMAIN counts : DOMAIN mlxp[r] = DOMAIN counts[r]
    /\ pc = "done" => ret = <<alpha, beta, rates, mlxp>>

\* C8's case: the model returned for a table with a masked cell whose rows
\* got different rates
C8_Witness ==
  /\ entry = "gamma_poisson_model" /\ pc = "done"
  /\ \E r \in DOMAIN counts : Kept(counts[r], upper_bound) # DOMAIN counts[r]
  /\ rates[1] # rates[2]
  /\ ret = <<alpha, beta, rates, mlxp>>

\* the log-sums of the terms k = c + 1, ..., c + 1 + j for j = 0, ..., n
RECURSIVE PartialSums(_, _, _)
PartialSums(c, r, n) ==
  IF n = 0 THEN <<Term(c + 1, r)>>
  ELSE LET p == PartialSums(c, r, n - 1)
       IN  Append(p, LogAddExp(p[n], Term(c + 1 + n, r)))

\* the partial sums of every element of the vector vec
RECURSIVE AllPartialSums(_, _, _)
AllPartialSums(vec, r, n) ==
  IF vec = <<>> THEN <<>>
  ELSE <<PartialSums(Head(vec), r, n)>> \o AllPartialSums(Tail(vec), r, n)

\* in the partial sums p of one element, the increase of pass n is below
\* 0.0001
BelowTol(p, n) == FLt(FSub(p[n + 1], p[n]), Fin(Tol))

\* C9: the loop of poisson_logsf runs in lock-step and breaks at the first
\* pass in which every element's increase is below 0.0001: while it runs,
\* all elements have taken the same number of terms; when it returns after
\* N passes, N >= 1, some element's increase was not below 0.0001 in every
\* earlier pass, and every element holds the log-sum of its terms
\* k = c + 1, ..., c + 1 + N, the last one included.
C9_LockStep ==
  /\ pc \in {"logsf_loop", "logsf_return"} =>
       \A e \in DOMAIN arg : pcounts[e] = arg[e] + 1 + iter
  /\ (pc = "logsf_loop" /\ iter >= 1) => accum = new
  /\ pc = "logsf_return" =>
       LET sums == AllPartialSums(arg, rate, iter)
       IN  /\ iter >= 1
           /\ \A e \in DOMAIN arg :
                /\ BelowTol(sums[e], iter)
                /\ new[e] = sums[e][iter + 1]
                /\ accum[e] = sums[e][iter]
           /\ \A n \in 1 .. (iter - 1) :
                \E e \in DOMAIN arg : ~BelowTol(sums[e], n)

\* C9's case: a call returned in which one element's increase was already
\* below 0.0001 a pass before the break
C9_Witness ==
  /\ pc = "logsf_return" /\ iter >= 2
  /\ \E e \in DOMAIN arg :
       BelowTol(PartialSums(arg[e], rate, iter), iter - 1)

=============================================================================
